---- MODULE Spec2Model ----
(***************************************************************************)
(* Proximity: a socket.io presence server (socketHandler.js) and the      *)
(* browser client (App.jsx, GameScene.js, webrtc.js) that opens a         *)
(* simple-peer session with every player it sees closer than 150 px.      *)
(*                                                                         *)
(* Two specifications share the server handlers:                          *)
(*   SpecServer  the server driven by arbitrary socket.io clients, which  *)
(*               may send any payload (well-formed, malformed, stale);    *)
(*   Spec        the server together with clients running the App.        *)
(*                                                                         *)
(* A third specification, SpecZone, is the zone-call design of the V2     *)
(* backend (stateManager.ts, mapParser.ts, videoHandler.ts,               *)
(* playerHandler.ts): player records in Redis and join-jitsi/leave-jitsi  *)
(* events when a move changes the trigger zone a player stands in.        *)
(* SpecMap calls the zone test of mapParser.ts by itself.                 *)
(***************************************************************************)
EXTENDS Integers, Sequences, FiniteSets, TLC

\* ------------------------------------------------------------------ bounds
MaxQueue == 1          \* events in flight from the server to one client
MaxInq == 1            \* events in flight from one client to the server
MaxHandlers == 2       \* zone design: handlers waiting for a Redis reply

\* --------------------------------------------------------------- constants
IDs == {"a", "b", "c"}         \* connection ids (socket.id), never reused
AppIDs == {"a", "b"}           \* the connections that run the App in Spec
NoId == "none"                 \* undefined id / absent field

SpawnX == 400
SpawnY == 300
threshold == 150

\* JavaScript values a coordinate field can hold
Num(n) == [t |-> "num", v |-> n]
Undefined == [t |-> "undefined", v |-> 0]
Str == [t |-> "string", v |-> 0]
IsFinite(j) == j.t = "num"

Point(x, y) == [x |-> Num(x), y |-> Num(y)]
NoPos == [x |-> Undefined, y |-> Undefined]
\* positions a player walks through: Spawn-P2 and P2-P3 are 100 and about
\* 61 px apart, Spawn-P3 exactly 150 px (not strictly below the threshold)
Spawn == Point(SpawnX, SpawnY)
P2 == Point(480, 360)
P3 == Point(490, 420)
Pos == {Spawn, P2, P3}

\* string order of the connection ids (socket.id < peerId)
Rank(id) == CASE id = "a" -> 1 [] id = "b" -> 2 [] id = "c" -> 3 [] OTHER -> 0
IdLess(p, q) == Rank(p) < Rank(q)

\* ---------------------------------------------------------------- messages
NoSnap == <<>>
Msg(type, id, x, y, anim, snap, signal) ==
    [type |-> type, id |-> id, x |-> x, y |-> y, anim |-> anim,
     snap |-> snap, signal |-> signal]
SyncMsg(reg) == Msg("playersSync", NoId, Undefined, Undefined, "undefined", reg, "none")
JoinMsg(p) == Msg("playerJoin", p.id, p.x, p.y, p.anim, NoSnap, "none")
MoveMsg(id, x, y, anim) == Msg("playerMove", id, x, y, anim, NoSnap, "none")
LeaveMsg(id) == Msg("playerLeave", id, Undefined, Undefined, "undefined", NoSnap, "none")
SignalMsg(sender, signal) ==
    Msg("webrtcSignal", sender, Undefined, Undefined, "undefined", NoSnap, signal)

\* client -> server payloads; nul marks an absent (undefined) payload, id a
\* stray id field in a move payload, NoId / "none" an absent field
MovePayload(x, y, anim, id) ==
    [type |-> "playerMove", nul |-> FALSE, x |-> x, y |-> y, anim |-> anim,
     id |-> id, targetId |-> NoId, signal |-> "none"]
SignalPayload(targetId, signal) ==
    [type |-> "webrtcSignal", nul |-> FALSE, x |-> Undefined, y |-> Undefined,
     anim |-> "undefined", id |-> NoId, targetId |-> targetId, signal |-> signal]
NullPayload(type) ==
    [type |-> type, nul |-> TRUE, x |-> Undefined, y |-> Undefined,
     anim |-> "undefined", id |-> NoId, targetId |-> NoId, signal |-> "none"]

\* what an arbitrary client can put on the wire
RawMoves ==
    {MovePayload(Num(480), Num(360), "walk", NoId),
     MovePayload(Num(490), Num(420), "walk", NoId),
     MovePayload(Num(480), Num(360), "walk", "a"),
     MovePayload(Undefined, Num(360), "walk", NoId),
     MovePayload(Num(480), Str, "undefined", NoId),
     NullPayload("playerMove")}
RawSignals ==
    {SignalPayload("a", "offer"), SignalPayload("b", "answer"),
     SignalPayload(NoId, "offer"), SignalPayload("a", "none"),
     NullPayload("webrtcSignal")}

\* ------------------------------------------------------------------- state
VARIABLES
    players,      \* server: the registry, connection id -> player record
    connected,    \* server: the sockets that are open
    dialing,      \* clients that called io(SOCKET_URL) and are not yet accepted
    serverUp,     \* FALSE once a handler threw (uncaught exception)
    out,          \* out[c]: events in flight from the server to client c
    inq,          \* inq[c]: events in flight from client c to the server
    stage,        \* client: how far App init got
    sid,          \* client: socket.id as the client knows it
    myPlayerId,   \* client: GameScene.myPlayerId
    player,       \* client: GameScene.player (own sprite position)
    others,       \* client: GameScene.players (remote sprites)
    peers,        \* client: WebRTCService.peers
    live,         \* client: SimplePeer instances made for an id and not destroyed
    last,         \* the step just taken
    jitsiZones,   \* zone design: mapParser's cache, entries in Map order
    store,        \* zone design: Redis hashes player:<id>
    members,      \* zone design: Redis set room:main_office:players
    pipe,         \* zone design: handlers whose Redis command awaits its reply
    session,      \* zone design: room of the last join-jitsi not yet left, per id
    gone,         \* zone design: the sockets that have disconnected
    zlast         \* zone design: the step just taken

appVars == <<players, connected, dialing, serverUp, out, inq,
             stage, sid, myPlayerId, player, others, peers, live, last>>
zoneVars == <<jitsiZones, store, members, pipe, session, gone, zlast>>
vars == <<appVars, zoneVars>>

Empty == [d \in {} |-> 0]
NoArg == [type |-> "none", nul |-> TRUE, x |-> Undefined, y |-> Undefined,
          anim |-> "undefined", id |-> NoId, targetId |-> NoId, signal |-> "none"]
StepWith(op, id, arg, created, removed) ==
    [op |-> op, id |-> id, arg |-> arg, created |-> created, removed |-> removed]
Step(op, id) == StepWith(op, id, NoArg, {}, {})

Without(f, k) == [d \in (DOMAIN f) \ {k} |-> f[d]]
With(f, k, v) == [d \in (DOMAIN f) \cup {k} |-> IF d = k THEN v ELSE f[d]]

InitCommon ==
    /\ players = Empty
    /\ connected = {}
    /\ serverUp = TRUE
    /\ out = [c \in IDs |-> <<>>]
    /\ inq = [c \in IDs |-> <<>>]
    /\ stage = [c \in IDs |-> "init"]
    /\ sid = [c \in IDs |-> NoId]
    /\ myPlayerId = [c \in IDs |-> NoId]
    /\ player = [c \in IDs |-> NoPos]
    /\ others = [c \in IDs |-> Empty]
    /\ peers = [c \in IDs |-> Empty]
    /\ live = [c \in IDs |-> [q \in IDs |-> 0]]
    /\ last = Step("init", NoId)

\* ------------------------------------------------- zone design: values
ZIDs == {"a", "b"}             \* socket ids of the zone design
Movers == {"a"}                \* the sockets that walk; the others stand still

DefaultSpawnX == 100
DefaultSpawnY == 100

\* JavaScript values a room field can hold besides a room name
JsNull == "js:null"
JsUndefined == "js:undefined"
NullString == "null"           \* the string 'null' addPlayer stores
Truthy(v) == v \notin {JsNull, JsUndefined, ""}

\* a number as Redis keeps and returns it: its decimal string
RedisString(n) == [t |-> "string", v |-> n]

NoSession == "none"
NoWhere == [x |-> -1, y |-> -1]

\* a zone step: the handler h of socket id, what it did (op), whether the
\* handler finished with it, the position of its move and the stored one
\* that move replaced, the membership it read, the events it emitted
ZStep(h, op, id, done, x, y, from, cur, emitted) ==
    [h |-> h, op |-> op, id |-> id, done |-> done, x |-> x, y |-> y,
     from |-> from, cur |-> cur, emitted |-> emitted]

\* the zone design is not deployed in the first two specifications
ZoneIdle ==
    /\ jitsiZones = <<>>
    /\ store = Empty
    /\ members = {}
    /\ pipe = <<>>
    /\ session = [c \in ZIDs |-> NoSession]
    /\ gone = {}
    /\ zlast = ZStep("none", "init", NoId, FALSE, -1, -1, NoWhere, JsUndefined, <<>>)

\* ------------------------------------- server: socketHandler.js handlers
Room(d) == Len(out[d]) < MaxQueue

\* OnConnect with the snapshot emitted before the new record is stored
OnConnectSnapshotFirst(c) ==
    /\ serverUp
    /\ c \in dialing
    /\ players' = With(players, c, [id |-> c, x |-> Num(SpawnX), y |-> Num(SpawnY),
                                    anim |-> "idle"])
    /\ connected' = connected \cup {c}
    /\ dialing' = dialing \ {c}
    /\ out' = [d \in IDs |->
                 IF d = c THEN Append(out[d], SyncMsg(players))
                 ELSE IF d \in connected THEN Append(out[d], JoinMsg(players'[c]))
                 ELSE out[d]]
    /\ UNCHANGED serverUp
    /\ last' = Step("connect", c)

\* io.on(CONNECT): register at the spawn, snapshot to the caller, announce
OnConnect(c) ==
    /\ serverUp
    /\ c \in dialing
    /\ players' = With(players, c, [id |-> c, x |-> Num(SpawnX), y |-> Num(SpawnY),
                                    anim |-> "idle"])
    /\ connected' = connected \cup {c}
    /\ dialing' = dialing \ {c}
    /\ out' = [d \in IDs |->
                 IF d = c THEN Append(out[d], SyncMsg(players'))
                 ELSE IF d \in connected THEN Append(out[d], JoinMsg(players'[c]))
                 ELSE out[d]]
    /\ UNCHANGED serverUp
    /\ last' = Step("connect", c)

\* socket.on(PLAYER_MOVE)
BroadcastId(c, data) == IF data.id # NoId THEN data.id ELSE c

\* OnPlayerMove without the players[socket.id] test
OnPlayerMoveUnguarded(c, data) ==
    IF data.nul
    THEN /\ serverUp' = FALSE
         /\ UNCHANGED <<players, connected, dialing, out>>
    ELSE /\ players' = With(players, c, [id |-> c, x |-> data.x, y |-> data.y,
                                         anim |-> data.anim])
         /\ out' = [d \in IDs |->
                      IF d \in connected \ {c}
                      THEN Append(out[d], MoveMsg(BroadcastId(c, data),
                                                  data.x, data.y, data.anim))
                      ELSE out[d]]
         /\ UNCHANGED <<connected, dialing, serverUp>>

\* OnPlayerMove emitting with io.emit instead of socket.broadcast.emit
OnPlayerMoveEcho(c, data) ==
    IF c \in DOMAIN players
    THEN IF data.nul
         THEN /\ serverUp' = FALSE
              /\ UNCHANGED <<players, connected, dialing, out>>
         ELSE /\ players' = [players EXCEPT ![c].x = data.x, ![c].y = data.y,
                                            ![c].anim = data.anim]
              /\ out' = [d \in IDs |->
                           IF d \in connected
                           THEN Append(out[d], MoveMsg(BroadcastId(c, data),
                                                       data.x, data.y, data.anim))
                           ELSE out[d]]
              /\ UNCHANGED <<connected, dialing, serverUp>>
    ELSE UNCHANGED <<players, connected, dialing, serverUp, out>>

OnPlayerMove(c, data) ==
    IF c \in DOMAIN players
    THEN IF data.nul
         THEN \* movementData.x throws a TypeError nobody catches
              /\ serverUp' = FALSE
              /\ UNCHANGED <<players, connected, dialing, out>>
         ELSE /\ players' = [players EXCEPT ![c].x = data.x, ![c].y = data.y,
                                            ![c].anim = data.anim]
              /\ out' = [d \in IDs |->
                           IF d \in connected \ {c}
                           THEN Append(out[d], MoveMsg(BroadcastId(c, data),
                                                       data.x, data.y, data.anim))
                           ELSE out[d]]
              /\ UNCHANGED <<connected, dialing, serverUp>>
    ELSE UNCHANGED <<players, connected, dialing, serverUp, out>>

\* OnSignal emitting with io.emit instead of io.to(data.targetId).emit
OnSignalToAll(c, data) ==
    IF data.nul
    THEN /\ serverUp' = FALSE
         /\ UNCHANGED <<players, connected, dialing, out>>
    ELSE IF data.targetId = NoId \/ data.signal = "none"
         THEN UNCHANGED <<players, connected, dialing, serverUp, out>>
         ELSE /\ out' = [d \in IDs |->
                           IF d \in connected
                           THEN Append(out[d], SignalMsg(c, data.signal))
                           ELSE out[d]]
              /\ UNCHANGED <<players, connected, dialing, serverUp>>

\* OnSignal bouncing the signal back to its sender when the target is gone
OnSignalBounces(c, data) ==
    IF data.nul
    THEN /\ serverUp' = FALSE
         /\ UNCHANGED <<players, connected, dialing, out>>
    ELSE IF data.targetId = NoId \/ data.signal = "none"
         THEN UNCHANGED <<players, connected, dialing, serverUp, out>>
         ELSE /\ out' = [d \in IDs |->
                           IF d = (IF data.targetId \in connected THEN data.targetId ELSE c)
                           THEN Append(out[d], SignalMsg(c, data.signal))
                           ELSE out[d]]
              /\ UNCHANGED <<players, connected, dialing, serverUp>>

\* OnSignal without the !data.targetId || !data.signal test
OnSignalUnvalidated(c, data) ==
    IF data.nul
    THEN /\ serverUp' = FALSE
         /\ UNCHANGED <<players, connected, dialing, out>>
    ELSE /\ out' = [d \in IDs |->
                      IF d = data.targetId /\ d \in connected
                      THEN Append(out[d], SignalMsg(c, data.signal))
                      ELSE out[d]]
         /\ UNCHANGED <<players, connected, dialing, serverUp>>

\* socket.on(WEBRTC_SIGNAL)
OnSignal(c, data) ==
    IF data.nul
    THEN \* data.targetId throws a TypeError nobody catches
         /\ serverUp' = FALSE
         /\ UNCHANGED <<players, connected, dialing, out>>
    ELSE IF data.targetId = NoId \/ data.signal = "none"
         THEN UNCHANGED <<players, connected, dialing, serverUp, out>>
         ELSE /\ out' = [d \in IDs |->
                           IF d = data.targetId /\ d \in connected
                           THEN Append(out[d], SignalMsg(c, data.signal))
                           ELSE out[d]]
              /\ UNCHANGED <<players, connected, dialing, serverUp>>

\* OnDisconnect without the delete
OnDisconnectKeepsRecord(c) ==
    /\ serverUp
    /\ c \in connected
    /\ connected' = connected \ {c}
    /\ out' = [d \in IDs |->
                 IF d = c THEN <<>>
                 ELSE IF d \in connected THEN Append(out[d], LeaveMsg(c))
                 ELSE out[d]]
    /\ UNCHANGED <<players, dialing, serverUp>>
    /\ last' = Step("disconnect", c)

\* OnDisconnect emitting with socket.broadcast.to(first other) instead of io.emit
OnDisconnectOneListener(c) ==
    /\ serverUp
    /\ c \in connected
    /\ players' = Without(players, c)
    /\ connected' = connected \ {c}
    /\ out' = [d \in IDs |->
                 IF d = c THEN <<>>
                 ELSE IF d \in connected /\ \A e \in connected \ {c} : ~IdLess(e, d)
                      THEN Append(out[d], LeaveMsg(c))
                 ELSE out[d]]
    /\ UNCHANGED <<dialing, serverUp>>
    /\ last' = Step("disconnect", c)

\* socket.on(DISCONNECT)
OnDisconnect(c) ==
    /\ serverUp
    /\ c \in connected
    /\ players' = Without(players, c)
    /\ connected' = connected \ {c}
    /\ out' = [d \in IDs |->
                 IF d = c THEN <<>>
                 ELSE IF d \in connected THEN Append(out[d], LeaveMsg(c))
                 ELSE out[d]]
    /\ UNCHANGED <<dialing, serverUp>>
    /\ last' = Step("disconnect", c)

\* ------------------------------ SpecServer: the server and arbitrary clients
\* the clients of SpecServer take every event off the wire before the next
\* one reaches the server
Quiet == \A d \in IDs : out[d] = <<>>

RawConnect(c) ==
    /\ Quiet
    /\ OnConnect(c)
    /\ UNCHANGED <<inq, stage, sid, myPlayerId, player, others, peers, live>>
    /\ UNCHANGED zoneVars

\* a move from any connection that was ever accepted, open or already closed
RawMove(c, data) ==
    /\ Quiet
    /\ serverUp
    /\ c \notin dialing
    /\ OnPlayerMove(c, data)
    /\ last' = StepWith("playerMove", c, data, {}, {})
    /\ UNCHANGED <<inq, stage, sid, myPlayerId, player, others, peers, live>>
    /\ UNCHANGED zoneVars

RawSignal(c, data) ==
    /\ Quiet
    /\ serverUp
    /\ c \in connected
    /\ OnSignal(c, data)
    /\ last' = StepWith("webrtcSignal", c, data, {}, {})
    /\ UNCHANGED <<inq, stage, sid, myPlayerId, player, others, peers, live>>
    /\ UNCHANGED zoneVars

RawDisconnect(c) ==
    /\ Quiet
    /\ OnDisconnect(c)
    /\ UNCHANGED <<inq, stage, sid, myPlayerId, player, others, peers, live>>
    /\ UNCHANGED zoneVars

\* a client without listeners: the event is taken off the wire and dropped
RawRecv(c) ==
    /\ out[c] # <<>>
    /\ out' = [out EXCEPT ![c] = Tail(@)]
    /\ last' = Step("recv", c)
    /\ UNCHANGED <<players, connected, dialing, serverUp, inq,
                   stage, sid, myPlayerId, player, others, peers, live>>
    /\ UNCHANGED zoneVars

InitServer == InitCommon /\ dialing = IDs /\ ZoneIdle

NextServer ==
    \/ \E c \in IDs : RawConnect(c)
    \/ \E c \in IDs : \E data \in RawMoves : RawMove(c, data)
    \/ \E c \in IDs : \E data \in RawSignals : RawSignal(c, data)
    \/ \E c \in IDs : RawDisconnect(c)
    \/ \E c \in IDs : RawRecv(c)

SpecServer == InitServer /\ [][NextServer]_vars

\* --------------------------------------------- client: GameScene.js, webrtc.js
\* Phaser.Math.Distance.Between, squared: sqrt is monotone, so
\* dist < threshold exactly when the squared distance is below threshold^2;
\* a coordinate that is not a number gives NaN, which is below nothing
DistanceSq(p, q) ==
    (p.x.v - q.x.v) * (p.x.v - q.x.v) + (p.y.v - q.y.v) * (p.y.v - q.y.v)
Near(p, q) ==
    /\ IsFinite(p.x) /\ IsFinite(p.y) /\ IsFinite(q.x) /\ IsFinite(q.y)
    /\ DistanceSq(p, q) < threshold * threshold

\* GameScene.checkProximity: the ids pushed to closePlayers
ClosePlayers(me, sprites) == {q \in DOMAIN sprites : Near(me, sprites[q])}

\* a SimplePeer instance (trickle: false): an initiator has its offer to emit,
\* a non-initiator emits one answer for every offer it is fed
Peer(initiator) ==
    [initiator |-> initiator, pending |-> IF initiator THEN "offer" ELSE "none"]
PeerSignalled(peer, signal) ==
    IF ~peer.initiator /\ signal = "offer"
    THEN [peer EXCEPT !.pending = "answer"]
    ELSE peer

\* WebRTCService.handleSignal: the peers its createPeer call makes
SignalCreatesAlways(ps, senderId) == {senderId}
SignalCreates(ps, senderId) == IF senderId \in DOMAIN ps THEN {} ELSE {senderId}

\* WebRTCService.handleSignal
HandleSignal(ps, senderId, signal) ==
    With(ps, senderId,
         PeerSignalled(IF senderId \in SignalCreates(ps, senderId)
                       THEN Peer(FALSE) ELSE ps[senderId],
                       signal))

\* the instance counts after createPeer for the ids in made and then
\* removePeer (destroy) for the ids in removed
Instances(n, made, removed) ==
    [q \in IDs |->
        LET m == n[q] + (IF q \in made THEN 1 ELSE 0)
        IN  IF q \in removed /\ m > 0 THEN m - 1 ELSE m]

\* App.jsx proximityUpdate handler, first loop: the peers it creates
ToCreateAlways(ps, me, closePlayers) == {q \in closePlayers : IdLess(me, q)}
ToCreate(ps, me, closePlayers) ==
    {q \in closePlayers : q \notin DOMAIN ps /\ IdLess(me, q)}

\* App.jsx proximityUpdate handler, second loop: the peers it removes
ToRemove(ps, closePlayers) == {q \in DOMAIN ps : q \notin closePlayers}

ProximityUpdate(ps, me, closePlayers) ==
    LET made == ToCreate(ps, me, closePlayers)
        all == [q \in (DOMAIN ps) \cup made |-> IF q \in made THEN Peer(TRUE) ELSE ps[q]]
    IN  [q \in (DOMAIN all) \ ToRemove(all, closePlayers) |-> all[q]]

\* GameScene PLAYERS_SYNC listener
SyncSprites(sprites, me, snap) ==
    [q \in (DOMAIN sprites) \cup ((DOMAIN snap) \ {me}) |->
        IF q \in DOMAIN snap THEN [x |-> snap[q].x, y |-> snap[q].y] ELSE sprites[q]]

\* ------------------------------------------------ Spec: the App's own steps
\* the client's socket reports 'connect': socket.id is set
SockOpen(c) ==
    /\ c \in connected
    /\ sid[c] = NoId
    /\ sid' = [sid EXCEPT ![c] = c]
    /\ last' = Step("open", c)
    /\ UNCHANGED <<players, connected, dialing, serverUp, out, inq,
                   stage, myPlayerId, player, others, peers, live>>
    /\ UNCHANGED zoneVars

\* initLocalStream resolved: the signal listener, new Phaser.Game and the
\* proximityUpdate handler
AppInit(c) ==
    /\ stage[c] = "init"
    /\ stage' = [stage EXCEPT ![c] = "app"]
    /\ last' = Step("appInit", c)
    /\ UNCHANGED <<players, connected, dialing, serverUp, out, inq,
                   sid, myPlayerId, player, others, peers, live>>
    /\ UNCHANGED zoneVars

\* GameScene.create: captures socket.id and registers the four listeners
Create(c) ==
    /\ stage[c] = "app"
    /\ stage' = [stage EXCEPT ![c] = "scene"]
    /\ myPlayerId' = [myPlayerId EXCEPT ![c] = sid[c]]
    /\ last' = Step("create", c)
    /\ UNCHANGED <<players, connected, dialing, serverUp, out, inq,
                   sid, player, others, peers, live>>
    /\ UNCHANGED zoneVars

\* one event from the server reaches the client's socket
ClientRecv(c) ==
    /\ sid[c] # NoId
    /\ out[c] # <<>>
    /\ LET m == Head(out[c]) IN
       /\ out' = [out EXCEPT ![c] = Tail(@)]
       /\ last' = StepWith("recv", c, NoArg,
                           IF m.type = "webrtcSignal" /\ stage[c] \in {"app", "scene"}
                           THEN SignalCreates(peers[c], m.id) ELSE {}, {})
       /\ IF m.type = "webrtcSignal"
          THEN /\ peers' = IF stage[c] \in {"app", "scene"}
                           THEN [peers EXCEPT ![c] = HandleSignal(@, m.id, m.signal)]
                           ELSE peers
               /\ live' = IF stage[c] \in {"app", "scene"}
                          THEN [live EXCEPT ![c] =
                                  Instances(@, SignalCreates(peers[c], m.id), {})]
                          ELSE live
               /\ UNCHANGED <<player, others>>
          ELSE IF stage[c] # "scene"
          THEN UNCHANGED <<player, others, peers, live>>
          ELSE /\ UNCHANGED <<peers, live>>
               /\ CASE m.type = "playersSync" ->
                         /\ player' = IF myPlayerId[c] \in DOMAIN m.snap
                                      THEN [player EXCEPT ![c] =
                                              [x |-> m.snap[myPlayerId[c]].x,
                                               y |-> m.snap[myPlayerId[c]].y]]
                                      ELSE player
                         /\ others' = [others EXCEPT ![c] =
                                         SyncSprites(@, myPlayerId[c], m.snap)]
                    [] m.type = "playerJoin" ->
                         /\ others' = [others EXCEPT ![c] =
                                         With(@, m.id, [x |-> m.x, y |-> m.y])]
                         /\ UNCHANGED player
                    [] m.type = "playerLeave" ->
                         /\ others' = [others EXCEPT ![c] = Without(@, m.id)]
                         /\ UNCHANGED player
                    [] m.type = "playerMove" ->
                         /\ others' = IF m.id \in DOMAIN others[c]
                                      THEN [others EXCEPT ![c] =
                                              With(@, m.id, [x |-> m.x, y |-> m.y])]
                                      ELSE others
                         /\ UNCHANGED player
    /\ UNCHANGED <<players, connected, dialing, serverUp, inq, stage, sid, myPlayerId>>
    /\ UNCHANGED zoneVars

\* GameScene.update for one frame in which the sprite ends at np (the frame's
\* physics step is part of the action), then checkProximity and the App's
\* proximityUpdate handler
Update(c, np) ==
    /\ stage[c] = "scene"
    /\ IF player[c] = NoPos
       THEN /\ last' = Step("update", c)
            /\ UNCHANGED <<player, inq, peers, live>>
       ELSE LET close == ClosePlayers(np, others[c]) IN
            /\ player' = [player EXCEPT ![c] = np]
            /\ IF np # player[c]
               THEN /\ Len(inq[c]) < MaxInq
                    /\ inq' = [inq EXCEPT ![c] =
                                 Append(@, MovePayload(np.x, np.y, "walk", NoId))]
               ELSE UNCHANGED inq
            /\ peers' = [peers EXCEPT ![c] = ProximityUpdate(@, sid[c], close)]
            /\ live' = [live EXCEPT ![c] =
                          Instances(@, ToCreate(peers[c], sid[c], close),
                                    ToRemove(peers[c], close))]
            /\ last' = StepWith("update", c, NoArg,
                                ToCreate(peers[c], sid[c], close),
                                ToRemove(peers[c], close))
    /\ UNCHANGED <<players, connected, dialing, serverUp, out,
                   stage, sid, myPlayerId, others>>
    /\ UNCHANGED zoneVars

\* a peer's 'signal' event: the offer or answer goes to the server
PeerSignal(c, q) ==
    /\ q \in DOMAIN peers[c]
    /\ peers[c][q].pending # "none"
    /\ Len(inq[c]) < MaxInq
    /\ inq' = [inq EXCEPT ![c] = Append(@, SignalPayload(q, peers[c][q].pending))]
    /\ peers' = [peers EXCEPT ![c][q].pending = "none"]
    /\ last' = Step("peerSignal", c)
    /\ UNCHANGED <<players, connected, dialing, serverUp, out,
                   stage, sid, myPlayerId, player, others, live>>
    /\ UNCHANGED zoneVars

\* ------------------------------------------- Spec: the server's steps
Connect(c) ==
    /\ \A d \in connected \cup {c} : Room(d)
    /\ OnConnect(c)
    /\ UNCHANGED <<inq, stage, sid, myPlayerId, player, others, peers, live>>
    /\ UNCHANGED zoneVars

RecvMove(c) ==
    /\ serverUp
    /\ c \in connected
    /\ inq[c] # <<>>
    /\ Head(inq[c]).type = "playerMove"
    /\ \A d \in connected \ {c} : Room(d)
    /\ OnPlayerMove(c, Head(inq[c]))
    /\ inq' = [inq EXCEPT ![c] = Tail(@)]
    /\ last' = StepWith("playerMove", c, Head(inq[c]), {}, {})
    /\ UNCHANGED <<stage, sid, myPlayerId, player, others, peers, live>>
    /\ UNCHANGED zoneVars

RecvSignal(c) ==
    /\ serverUp
    /\ c \in connected
    /\ inq[c] # <<>>
    /\ Head(inq[c]).type = "webrtcSignal"
    /\ \A d \in connected : Room(d)
    /\ OnSignal(c, Head(inq[c]))
    /\ inq' = [inq EXCEPT ![c] = Tail(@)]
    /\ last' = StepWith("webrtcSignal", c, Head(inq[c]), {}, {})
    /\ UNCHANGED <<stage, sid, myPlayerId, player, others, peers, live>>
    /\ UNCHANGED zoneVars

\* the client leaves (App cleanup or a closed tab): its socket closes, what it
\* had in flight is lost, and the server runs its DISCONNECT handler
Disconnect(c) ==
    /\ \A d \in connected \ {c} : Room(d)
    /\ OnDisconnect(c)
    /\ inq' = [inq EXCEPT ![c] = <<>>]
    /\ stage' = [stage EXCEPT ![c] = "gone"]
    /\ sid' = [sid EXCEPT ![c] = NoId]
    /\ myPlayerId' = [myPlayerId EXCEPT ![c] = NoId]
    /\ player' = [player EXCEPT ![c] = NoPos]
    /\ others' = [others EXCEPT ![c] = Empty]
    /\ peers' = [peers EXCEPT ![c] = Empty]
    /\ live' = [live EXCEPT ![c] = [q \in IDs |-> 0]]
    /\ UNCHANGED zoneVars

\* every App has run init() up to its await: socketService.connect() is called
Init ==
    /\ InitCommon
    /\ dialing = AppIDs
    /\ ZoneIdle

Next ==
    \/ \E c \in AppIDs : Connect(c)
    \/ \E c \in AppIDs : SockOpen(c)
    \/ \E c \in AppIDs : AppInit(c)
    \/ \E c \in AppIDs : Create(c)
    \/ \E c \in AppIDs : ClientRecv(c)
    \/ \E c \in AppIDs : \E np \in Pos : Update(c, np)
    \/ \E c \in AppIDs : \E q \in AppIDs : PeerSignal(c, q)
    \/ \E c \in AppIDs : RecvMove(c)
    \/ \E c \in AppIDs : RecvSignal(c)
    \/ \E c \in AppIDs : Disconnect(c)

Spec == Init /\ [][Next]_vars

\* =========================================================== zone design
\* ------------------------------------------------------ core/mapParser.ts
\* an object of the Tiled layer 'Triggers'; room is the value of its
\* jitsiRoom property, JsUndefined when it has none
TiledObject(room, x, y, width, height) ==
    [room |-> room, x |-> x, y |-> y, width |-> width, height |-> height]

\* jitsiZones.set(roomName, zone): a key already in the Map keeps its place
MapSet(table, obj) ==
    IF \E i \in 1..Len(table) : table[i].room = obj.room
    THEN [i \in 1..Len(table) |-> IF table[i].room = obj.room THEN obj ELSE table[i]]
    ELSE Append(table, obj)

\* loadMap, the loop over the first n objects of the layer
RECURSIVE LoadObjects(_, _)
LoadObjects(objects, n) ==
    IF n = 0
    THEN <<>>
    ELSE LET cache == LoadObjects(objects, n - 1) IN
         IF objects[n].room = JsUndefined THEN cache ELSE MapSet(cache, objects[n])

loadMap(objects) == LoadObjects(objects, Len(objects))

\* the AABB test of getJitsiRoomForPosition
InZoneExclusive(zone, x, y) ==
    /\ x >= zone.x /\ x < zone.x + zone.width
    /\ y >= zone.y /\ y < zone.y + zone.height
InZone(zone, x, y) ==
    /\ x >= zone.x /\ x <= zone.x + zone.width
    /\ y >= zone.y /\ y <= zone.y + zone.height

\* getJitsiRoomForPosition, the loop from entry i on
RECURSIVE ScanZones(_, _, _, _)
ScanZones(table, i, x, y) ==
    IF i > Len(table)
    THEN JsNull
    ELSE IF InZone(table[i], x, y)
         THEN table[i].room
         ELSE ScanZones(table, i + 1, x, y)

getJitsiRoomForPosition(table, x, y) == ScanZones(table, 1, x, y)

\* the maps the server may have loaded: two zones sharing the corner (50,50)
\* in either order, and a layer with a plain object and a room named twice
Conf1 == TiledObject("conf1", 0, 0, 50, 50)
Conf2 == TiledObject("conf2", 50, 50, 30, 30)
Maps ==
    {<<Conf1, Conf2>>,
     <<Conf2, Conf1>>,
     <<TiledObject(JsUndefined, 90, 90, 20, 20), Conf1, Conf2,
       TiledObject("conf1", 60, 60, 40, 40)>>}

\* the positions a player-move carries
ZonePos ==
    {[x |-> 10, y |-> 10], [x |-> 50, y |-> 50], [x |-> 60, y |-> 60],
     [x |-> 90, y |-> 20], [x |-> DefaultSpawnX, y |-> DefaultSpawnY]}

\* ---------------------------------------------------- core/stateManager.ts
\* the hash of a key that does not exist: hGetAll returns {}
NoHash ==
    [x |-> Undefined, y |-> Undefined, currentRoom |-> JsUndefined,
     currentJitsiRoom |-> JsUndefined]

\* getPlayer
getPlayer(id) == IF id \in DOMAIN store THEN store[id] ELSE NoHash

\* addPlayer's newPlayer as Redis keeps it
NewPlayer ==
    [x |-> RedisString(DefaultSpawnX), y |-> RedisString(DefaultSpawnY),
     currentRoom |-> "main_office", currentJitsiRoom |-> NullString]

\* the stored position as numbers, NoWhere when the hash has none
StoredAt(id) ==
    IF id \in DOMAIN store /\ store[id].x.t = "string"
    THEN [x |-> store[id].x.v, y |-> store[id].y.v]
    ELSE NoWhere

\* --------------------------------------------------------- handler steps
\* a handler between two awaits: cmd is the Redis command it waits for
Handler(h, id, cmd, x, y, from, cur, todo, got) ==
    [h |-> h, id |-> id, cmd |-> cmd, x |-> x, y |-> y, from |-> from,
     cur |-> cur, todo |-> todo, got |-> got]

Event(to, type, roomName, list) ==
    [to |-> to, type |-> type, roomName |-> roomName, list |-> list]

\* the ids of a set in the order sMembers lists them
RECURSIVE InOrder(_)
InOrder(S) ==
    IF S = {}
    THEN <<>>
    ELSE LET q == CHOOSE q \in S : \A r \in S : Rank(q) <= Rank(r)
         IN  <<q>> \o InOrder(S \ {q})

\* the reply to the head command resumes its handler, which may send its
\* next command (next) or return
Resume(next) ==
    pipe' = IF next = <<>> THEN Tail(pipe) ELSE Append(Tail(pipe), next[1])

Awaits(cmd) == pipe # <<>> /\ Head(pipe).cmd = cmd

ZoneStep(w, op, done, emitted) ==
    zlast' = ZStep(w.h, op, w.id, done, w.x, w.y, w.from, w.cur, emitted)

\* ------------------------------------------------ socket/playerHandler.ts
\* socket.on('join-room'): addPlayer builds newPlayer and sends its hSet
JoinRoom(c) ==
    /\ Len(pipe) < MaxHandlers
    /\ c \notin gone
    /\ LET w == Handler("join-room", c, "hSet player", -1, -1, NoWhere,
                        JsUndefined, <<>>, {}) IN
       /\ pipe' = Append(pipe, w)
       /\ ZoneStep(w, "join-room", FALSE, <<>>)
    /\ UNCHANGED <<gone, jitsiZones, store, members, session>>
    /\ UNCHANGED appVars

\* addPlayer after its hSet: the hash holds newPlayer; sAdd is sent
AddPlayerHash ==
    /\ Awaits("hSet player")
    /\ LET w == Head(pipe) IN
       /\ store' = With(store, w.id, NewPlayer)
       /\ Resume(<<[w EXCEPT !.cmd = "sAdd"]>>)
       /\ ZoneStep(w, "addPlayer", FALSE, <<>>)
    /\ UNCHANGED <<gone, jitsiZones, members, session>>
    /\ UNCHANGED appVars

\* addPlayer after its sAdd; getPlayersInRoom sends sMembers
AddPlayerSet ==
    /\ Awaits("sAdd")
    /\ LET w == Head(pipe) IN
       /\ members' = members \cup {w.id}
       /\ Resume(<<[w EXCEPT !.cmd = "sMembers"]>>)
       /\ ZoneStep(w, "sAdd", FALSE, <<>>)
    /\ UNCHANGED <<gone, jitsiZones, store, session>>
    /\ UNCHANGED appVars

\* join-room once getPlayersInRoom returned: 'current-users' to the socket,
\* 'new-user-joined' to the others
Joined(w, got) ==
    <<Event(w.id, "current-users", JsUndefined, got),
      Event("others", "new-user-joined", JsUndefined, {[id |-> w.id, player |-> NewPlayer]})>>

\* getPlayersInRoom after sMembers: the loop sends getPlayer for the first id
PlayersInRoom ==
    /\ Awaits("sMembers")
    /\ LET w == Head(pipe)
           todo == InOrder(members) IN
       IF todo = <<>>
       THEN /\ Resume(<<>>)
            /\ ZoneStep(w, "getPlayersInRoom", TRUE, Joined(w, {}))
       ELSE /\ Resume(<<[w EXCEPT !.cmd = "hGetAll member", !.todo = todo]>>)
            /\ ZoneStep(w, "sMembers", FALSE, <<>>)
    /\ UNCHANGED <<gone, jitsiZones, store, members, session>>
    /\ UNCHANGED appVars

\* getPlayersInRoom after one getPlayer: the object is pushed (an empty one
\* too) and the loop goes on or returns
PlayersInRoomGet ==
    /\ Awaits("hGetAll member")
    /\ LET w == Head(pipe)
           got == w.got \cup {[id |-> Head(w.todo), player |-> getPlayer(Head(w.todo))]}
           rest == Tail(w.todo) IN
       IF rest = <<>>
       THEN /\ Resume(<<>>)
            /\ ZoneStep(w, "getPlayersInRoom", TRUE, Joined(w, got))
       ELSE /\ Resume(<<[w EXCEPT !.todo = rest, !.got = got]>>)
            /\ ZoneStep(w, "getPlayer", FALSE, <<>>)
    /\ UNCHANGED <<gone, jitsiZones, store, members, session>>
    /\ UNCHANGED appVars

\* socket.on('player-move'): updatePlayerPosition sends its hSet; the
\* handler does not ask whether the socket has joined
PlayerMove(c, p) ==
    /\ Len(pipe) < MaxHandlers
    /\ c \notin gone
    /\ LET w == Handler("player-move", c, "hSet position", p.x, p.y, NoWhere,
                        JsUndefined, <<>>, {}) IN
       /\ pipe' = Append(pipe, w)
       /\ ZoneStep(w, "player-move", FALSE, <<>>)
    /\ UNCHANGED <<gone, jitsiZones, store, members, session>>
    /\ UNCHANGED appVars

\* updatePlayerPosition after its hSet: 'player-moved' is broadcast and
\* checkJitsiZone sends getPlayer
UpdatePlayerPosition ==
    /\ Awaits("hSet position")
    /\ LET w == [Head(pipe) EXCEPT !.from = StoredAt(Head(pipe).id)] IN
       /\ store' = With(store, w.id, [getPlayer(w.id) EXCEPT !.x = RedisString(w.x),
                                                            !.y = RedisString(w.y)])
       /\ Resume(<<[w EXCEPT !.cmd = "hGetAll"]>>)
       /\ ZoneStep(w, "updatePlayerPosition", FALSE,
                   <<Event("others", "player-moved", JsUndefined,
                           {[id |-> w.id, x |-> w.x, y |-> w.y]})>>)
    /\ UNCHANGED <<gone, jitsiZones, members, session>>
    /\ UNCHANGED appVars

\* ------------------------------------------------- socket/videoHandler.ts
\* checkJitsiZone after getPlayer: the stored room is compared with the room
\* of the new position; on a change setPlayerJitsiRoom sends its hSet
CheckJitsiZone ==
    /\ Awaits("hGetAll")
    /\ LET currentJitsiRoom == getPlayer(Head(pipe).id).currentJitsiRoom
           w == [Head(pipe) EXCEPT !.cur = currentJitsiRoom]
           newJitsiRoom == getJitsiRoomForPosition(jitsiZones, w.x, w.y) IN
       IF currentJitsiRoom = newJitsiRoom
       THEN /\ Resume(<<>>)
            /\ ZoneStep(w, "checkJitsiZone", TRUE, <<>>)
       ELSE /\ Resume(<<[w EXCEPT !.cmd = "hSet currentJitsiRoom"]>>)
            /\ ZoneStep(w, "getPlayer", FALSE, <<>>)
    /\ UNCHANGED <<gone, jitsiZones, store, members, session>>
    /\ UNCHANGED appVars

\* checkJitsiZone after setPlayerJitsiRoom: the room (or 'null') is stored
\* and join-jitsi or leave-jitsi goes to the socket
SetPlayerJitsiRoom ==
    /\ Awaits("hSet currentJitsiRoom")
    /\ LET w == Head(pipe)
           newJitsiRoom == getJitsiRoomForPosition(jitsiZones, w.x, w.y) IN
       /\ store' = With(store, w.id,
                        [getPlayer(w.id) EXCEPT !.currentJitsiRoom =
                            IF Truthy(newJitsiRoom) THEN newJitsiRoom ELSE NullString])
       /\ Resume(<<>>)
       /\ IF Truthy(newJitsiRoom)
          THEN /\ session' = [session EXCEPT ![w.id] = newJitsiRoom]
               /\ ZoneStep(w, "checkJitsiZone", TRUE,
                           <<Event(w.id, "join-jitsi", newJitsiRoom, {})>>)
          ELSE /\ session' = [session EXCEPT ![w.id] = NoSession]
               /\ ZoneStep(w, "checkJitsiZone", TRUE,
                           <<Event(w.id, "leave-jitsi", w.cur, {})>>)
    /\ UNCHANGED <<gone, jitsiZones, members>>
    /\ UNCHANGED appVars

\* ------------------------------------------------------------ disconnect
\* socket.on('disconnect'): removePlayer sends hGet currentRoom; the socket
\* sends nothing after it
Disconnected(c) ==
    /\ Len(pipe) < MaxHandlers
    /\ c \notin gone
    /\ gone' = gone \cup {c}
    /\ LET w == Handler("disconnect", c, "hGet currentRoom", -1, -1, NoWhere,
                        JsUndefined, <<>>, {}) IN
       /\ pipe' = Append(pipe, w)
       /\ ZoneStep(w, "disconnect", FALSE, <<>>)
    /\ UNCHANGED <<jitsiZones, store, members, session>>
    /\ UNCHANGED appVars

\* removePlayer after hGet: sRem is sent if the hash named a room, del if not
RemovePlayerRoom ==
    /\ Awaits("hGet currentRoom")
    /\ LET w == Head(pipe)
           room == getPlayer(w.id).currentRoom IN
       /\ Resume(<<[w EXCEPT !.cmd = IF Truthy(room) THEN "sRem" ELSE "del"]>>)
       /\ ZoneStep(w, "hGet", FALSE, <<>>)
    /\ UNCHANGED <<gone, jitsiZones, store, members, session>>
    /\ UNCHANGED appVars

\* removePlayer after sRem; del is sent
RemovePlayerSet ==
    /\ Awaits("sRem")
    /\ LET w == Head(pipe) IN
       /\ members' = members \ {w.id}
       /\ Resume(<<[w EXCEPT !.cmd = "del"]>>)
       /\ ZoneStep(w, "sRem", FALSE, <<>>)
    /\ UNCHANGED <<gone, jitsiZones, store, session>>
    /\ UNCHANGED appVars

\* removePlayer after del: the hash is gone and 'user-left' is broadcast
RemovePlayerHash ==
    /\ Awaits("del")
    /\ LET w == Head(pipe) IN
       /\ store' = Without(store, w.id)
       /\ Resume(<<>>)
       /\ ZoneStep(w, "removePlayer", TRUE,
                   <<Event("others", "user-left", JsUndefined, {[id |-> w.id]})>>)
    /\ UNCHANGED <<gone, jitsiZones, members, session>>
    /\ UNCHANGED appVars

\* the server has started: loadMap ran, Redis is empty, no socket has sent
\* anything yet
InitZone ==
    /\ InitCommon
    /\ dialing = {}
    /\ jitsiZones \in {loadMap(m) : m \in Maps}
    /\ store = Empty
    /\ members = {}
    /\ pipe = <<>>
    /\ session = [c \in ZIDs |-> NoSession]
    /\ gone = {}
    /\ zlast = ZStep("none", "init", NoId, FALSE, -1, -1, NoWhere, JsUndefined, <<>>)

NextZone ==
    \/ \E c \in ZIDs : JoinRoom(c)
    \/ AddPlayerHash
    \/ AddPlayerSet
    \/ PlayersInRoom
    \/ PlayersInRoomGet
    \/ \E c \in Movers : \E p \in ZonePos : PlayerMove(c, p)
    \/ UpdatePlayerPosition
    \/ CheckJitsiZone
    \/ SetPlayerJitsiRoom
    \/ \E c \in ZIDs : Disconnected(c)
    \/ RemovePlayerRoom
    \/ RemovePlayerSet
    \/ RemovePlayerHash

SpecZone == InitZone /\ [][NextZone]_vars

\* ------------------------------------------------- the zone test by itself
\* the coordinates the zone test is called with: inside, on and just past
\* the edges of the zones
Coords == {0, 10, 49, 50, 51, 60, 80, 81, 100, 101}

\* one call getJitsiRoomForPosition(x, y) against the loaded map; cur holds
\* what it returned
Locate(x, y) ==
    /\ zlast' = ZStep("none", "getJitsiRoomForPosition", NoId, TRUE, x, y, NoWhere,
                      getJitsiRoomForPosition(jitsiZones, x, y), <<>>)
    /\ UNCHANGED <<gone, jitsiZones, store, members, pipe, session>>
    /\ UNCHANGED appVars

NextMap == \E x \in Coords : \E y \in Coords : Locate(x, y)

SpecMap == InitZone /\ [][NextMap]_vars

\* ======================================================= server properties
\* every event the step appended to out[d], oldest first
Sent(d) == SubSeq(out'[d], Len(out[d]) + 1, Len(out'[d]))
KeepsOld(d) == SubSeq(out'[d], 1, Len(out[d])) = out[d]

\* C6: a player record exists in the registry exactly when its connection is
\* open; a record appears only in the step of its connect event and
\* disappears only in the step of its disconnect event
C6_RecordIffConnection ==
    [][/\ DOMAIN players = connected
       /\ DOMAIN players' = connected'
       /\ \A c \in IDs :
            /\ (c \in DOMAIN players' /\ c \notin DOMAIN players)
                  => (last'.op = "connect" /\ last'.id = c)
            /\ (c \in DOMAIN players /\ c \notin DOMAIN players')
                  => (last'.op = "disconnect" /\ last'.id = c)]_vars

\* a connection has closed while another one is still registered
C6_Witness ==
    /\ last.op = "disconnect"
    /\ last.id \notin DOMAIN players
    /\ DOMAIN players # {}
    /\ DOMAIN players = connected

\* C7: a move handled for a connection whose record was removed changes
\* nothing: the registry is the same, no record comes back, nothing is sent
C7_StaleMoveIsNoOp ==
    [][(last'.op = "playerMove" /\ last'.id \notin DOMAIN players)
          => (players' = players /\ out' = out /\ serverUp' = serverUp)]_vars

\* a well-formed move of a closed connection was handled while others listen
C7_Witness ==
    /\ last.op = "playerMove"
    /\ ~last.arg.nul
    /\ last.id \notin dialing
    /\ last.id \notin connected
    /\ last.id \notin DOMAIN players
    /\ connected # {}

\* C8: a connect registers the newcomer at the spawn, leaves the other
\* records alone, sends the newcomer alone one snapshot of the whole registry
\* (newcomer included) and every other open connection one peer-joined event
C8_Join ==
    [][last'.op = "connect" =>
         LET c == last'.id IN
         /\ players'[c] = [id |-> c, x |-> Num(SpawnX), y |-> Num(SpawnY), anim |-> "idle"]
         /\ DOMAIN players' = DOMAIN players \cup {c}
         /\ \A q \in DOMAIN players : players'[q] = players[q]
         /\ KeepsOld(c)
         /\ Sent(c) = <<SyncMsg(players')>>
         /\ DOMAIN Sent(c)[1].snap = DOMAIN players \cup {c}
         /\ \A d \in IDs \ {c} :
              /\ KeepsOld(d)
              /\ Sent(d) = IF d \in connected THEN <<JoinMsg(players'[c])>> ELSE <<>>]_vars

\* the third player has joined two others
C8_Witness ==
    /\ last.op = "connect"
    /\ Cardinality(connected) = 3
    /\ \E d \in connected \ {last.id} : players[d].x # Num(SpawnX)

\* C9: a move accepted from a registered connection stores the reported
\* coordinates and goes, once, to every other open connection, near or far,
\* and not to the sender
C9_MoveFanOut ==
    [][(last'.op = "playerMove" /\ last'.id \in DOMAIN players /\ ~last'.arg.nul) =>
         LET c == last'.id
             data == last'.arg IN
         /\ players'[c].x = data.x
         /\ players'[c].y = data.y
         /\ \A d \in IDs :
              /\ KeepsOld(d)
              /\ IF d \in connected \ {c}
                 THEN /\ Len(Sent(d)) = 1
                      /\ Sent(d)[1].type = "playerMove"
                      /\ Sent(d)[1].x = data.x
                      /\ Sent(d)[1].y = data.y
                 ELSE Sent(d) = <<>>]_vars

\* a move was fanned out to two others, one of them out of range of the mover
C9_Witness ==
    /\ last.op = "playerMove"
    /\ ~last.arg.nul
    /\ last.id \in DOMAIN players
    /\ Cardinality(connected) = 3
    /\ \E d \in connected \ {last.id} :
          /\ ~Near(players[last.id], players[d])
          /\ out[d] # <<>>
    /\ \E d \in connected \ {last.id} : Near(players[last.id], players[d])

\* C10: a disconnect removes the record and sends exactly one peer-left event
\* with the departed id to every connection that is still open
C10_Disconnect ==
    [][last'.op = "disconnect" =>
         LET c == last'.id IN
         /\ c \notin DOMAIN players'
         /\ \A d \in IDs \ {c} :
              /\ KeepsOld(d)
              /\ Sent(d) = IF d \in connected THEN <<LeaveMsg(c)>> ELSE <<>>]_vars

\* one of three players has left
C10_Witness ==
    /\ last.op = "disconnect"
    /\ Cardinality(connected) = 2
    /\ \A d \in connected : out[d] # <<>>

\* a signal payload that carries both a target id and a signal
WellFormedSignal(data) == ~data.nul /\ data.targetId # NoId /\ data.signal # "none"

\* C11: a well-formed signal from F naming T puts one event on T's connection
\* when T is open and none otherwise; the event carries F's connection id and
\* the payload F sent; nobody else receives anything and the registry stays
C11_SignalRelay ==
    [][(last'.op = "webrtcSignal" /\ WellFormedSignal(last'.arg)) =>
         LET F == last'.id
             T == last'.arg.targetId IN
         /\ players' = players
         /\ \A d \in IDs :
              /\ KeepsOld(d)
              /\ Sent(d) = IF d = T /\ T \in connected
                           THEN <<SignalMsg(F, last'.arg.signal)>>
                           ELSE <<>>]_vars

\* a signal was relayed to its target while a third connection was open
C11_Witness ==
    /\ last.op = "webrtcSignal"
    /\ WellFormedSignal(last.arg)
    /\ last.arg.targetId \in connected \ {last.id}
    /\ Cardinality(connected) = 3
    /\ out[last.arg.targetId] = <<SignalMsg(last.id, last.arg.signal)>>

\* C12: a well-formed signal whose target is not an open connection is
\* dropped: nothing is sent to anybody, the sender included, and the registry
\* stays
C12_RelayToInactiveTarget ==
    [][(last'.op = "webrtcSignal" /\ WellFormedSignal(last'.arg)
            /\ last'.arg.targetId \notin connected)
          => (out' = out /\ players' = players /\ serverUp' = serverUp)]_vars

\* a signal named a connection that had closed, with two connections open
C12_Witness ==
    /\ last.op = "webrtcSignal"
    /\ WellFormedSignal(last.arg)
    /\ last.arg.targetId \notin connected
    /\ last.arg.targetId \notin dialing
    /\ Cardinality(connected) = 2
    /\ serverUp

Malformed(data) ==
    \/ data.nul
    \/ data.type = "playerMove" /\ (data.x = Undefined \/ data.y = Undefined)
    \/ data.type = "webrtcSignal" /\ (data.targetId = NoId \/ data.signal = "none")

\* C14: after a malformed move or signal the message is dropped, every
\* connection stays open, the server keeps running and no record changes
C14_MalformedContained ==
    [][(last'.op \in {"playerMove", "webrtcSignal"} /\ Malformed(last'.arg)) =>
         /\ serverUp'
         /\ connected' = connected
         /\ players' = players
         /\ out' = out]_vars

\* the registry record of q; the registry is an object of the server
\* process and is gone with it
NoRecord == [id |-> NoId, x |-> Undefined, y |-> Undefined, anim |-> "undefined"]
Record(q) == IF serverUp /\ q \in DOMAIN players THEN players[q] ELSE NoRecord

\* C25: handling a connect, move, signal or disconnect of connection c,
\* whatever its payload, leaves the registry record of every other
\* connection as it was
C25_OthersUntouched ==
    [][last'.op \in {"connect", "playerMove", "webrtcSignal", "disconnect"} =>
         \A q \in IDs \ {last'.id} : Record(q)' = Record(q)]_vars

\* the same for the payloads that are not null or undefined
C25_OthersUntouchedByObjects ==
    [][(\/ last'.op \in {"connect", "disconnect"}
        \/ last'.op \in {"playerMove", "webrtcSignal"} /\ ~last'.arg.nul) =>
         \A q \in IDs \ {last'.id} : Record(q)' = Record(q)]_vars

\* C26: every record of the registry holds two finite numbers as its
\* position, whatever the move payloads carried
C26_FinitePositions ==
    \A c \in DOMAIN players : IsFinite(players[c].x) /\ IsFinite(players[c].y)

\* C27: every peer-moved event the server sends when it handles a move of
\* connection c carries c as its id, whatever fields the payload has
C27_MoveCarriesSenderId ==
    [][last'.op = "playerMove" =>
         \A d \in IDs : \A i \in 1..Len(Sent(d)) :
            Sent(d)[i].type = "playerMove" => Sent(d)[i].id = last'.id]_vars

\* ========================================================= App properties
Live == {c \in AppIDs : c \in connected}

\* nothing is in flight, no peer has a signal left to emit, every connected
\* client runs its update loop with a player of its own, and running its
\* proximity check again would change nothing
Settled ==
    /\ \A c \in IDs : out[c] = <<>> /\ inq[c] = <<>>
    /\ \A c \in Live :
         /\ stage[c] = "scene"
         /\ player[c] # NoPos
         /\ \A q \in DOMAIN peers[c] : peers[c][q].pending = "none"
         /\ ProximityUpdate(peers[c], sid[c], ClosePlayers(player[c], others[c])) = peers[c]

\* C1: when everything is delivered and every client has rerun its check,
\* a client holds a peer for q exactly when q is connected and within the
\* threshold of it
C1_NoOrphanSessions ==
    Settled =>
        \A c \in Live : \A q \in IDs \ {c} :
            q \in DOMAIN peers[c] <=> (q \in Live /\ Near(player[c], player[q]))

\* C2: the close sets that two connected clients compute agree about the pair
C2_Symmetry ==
    \A p \in Live : \A q \in Live \ {p} :
        (player[p] # NoPos /\ player[q] # NoPos) =>
            (q \in ClosePlayers(player[p], others[p])
                <=> p \in ClosePlayers(player[q], others[q]))

\* C3: a recomputation that finds a session already there for a peer does not
\* call createPeer for it, and if the peer is still close its instance is the
\* one it was, with no new offer to emit
C3_IdempotentOpen ==
    [][last'.op = "update" =>
         LET c == last'.id IN
         \A q \in DOMAIN peers[c] :
            /\ q \notin last'.created
            /\ q \in ClosePlayers(player'[c], others[c])
                  => (q \in DOMAIN peers'[c] /\ peers'[c][q] = peers[c][q])]_vars

\* the check ran again for a close peer whose offer had already gone out
C3_Witness ==
    /\ last.op = "update"
    /\ last.created = {}
    /\ \E q \in DOMAIN peers[last.id] :
          /\ q \in ClosePlayers(player[last.id], others[last.id])
          /\ peers[last.id][q].initiator
          /\ peers[last.id][q].pending = "none"

\* C4: when two clients hold a peer for each other, exactly one of the two
\* peers is an initiator, the one of the client whose id sorts first
C4_InitiatorTieBreak ==
    \A c \in Live : \A q \in Live \ {c} :
        (q \in DOMAIN peers[c] /\ c \in DOMAIN peers[q]) =>
            /\ peers[c][q].initiator # peers[q][c].initiator
            /\ peers[c][q].initiator <=> IdLess(c, q)

\* C15: every client holds at most one undestroyed peer instance per remote
\* id, and neither the proximity handler nor handleSignal calls createPeer for
\* an id that still has an undestroyed instance
C15_OneSessionPerKey ==
    [][/\ \A c \in IDs : \A q \in IDs : live'[c][q] <= 1
       /\ \A q \in last'.created : live[last'.id][q] = 0]_vars

\* an offer made this client create its peer while the offerer's is alive
C15_Witness ==
    /\ last.op = "recv"
    /\ \E q \in AppIDs :
          /\ last.created = {q}
          /\ live[last.id][q] = 1
          /\ live[q][last.id] = 1
          /\ ~peers[last.id][q].initiator

\* C16: when an update removes the peer of a player that is still connected
\* and still shown but out of range, the client sends the server a close
\* message naming that player
C16_CloseSentToPeer ==
    [][\A q \in IDs :
         (/\ last'.op = "update"
          /\ q \in last'.removed
          /\ q \in connected
          /\ q \in DOMAIN others[last'.id])
         => \E i \in 1..Len(inq'[last'.id]) :
               /\ inq'[last'.id][i].type = "closePeer"
               /\ inq'[last'.id][i].targetId = q]_vars

\* C5: once a player has left and a client that held a session with it has
\* received everything and run its update, that client holds no session
\* keyed by the departed id
C5_CleanClose ==
    \A q \in Live : \A p \in AppIDs :
        (stage[p] = "gone" /\ out[q] = <<>> /\ last.op = "update" /\ last.id = q)
            => p \notin DOMAIN peers[q]

\* the position the server registry holds for s, as a sprite position
Registered(s) == [x |-> players[s].x, y |-> players[s].y]

\* the places of out[c] that hold a peer-moved event of source s
MovesOf(c, s) == {i \in 1..Len(out[c]) : out[c][i].type = "playerMove" /\ out[c][i].id = s}

\* C24: the peer-moved events of a source s wait for a client c in the order
\* the server applied s's moves (the newest one carries the registry's
\* position), and once c has been delivered everything the position it holds
\* for s is the one in the registry
C24_PerSourceOrder ==
    \A c \in Live : \A s \in Live \ {c} :
        /\ MovesOf(c, s) # {} =>
              LET i == CHOOSE k \in MovesOf(c, s) : \A j \in MovesOf(c, s) : j <= k
              IN  [x |-> out[c][i].x, y |-> out[c][i].y] = Registered(s)
        /\ (out[c] = <<>> /\ sid[c] # NoId) =>
              (s \in DOMAIN others[c] /\ others[c][s] = Registered(s))

\* the same for the clients that show a sprite for s
C24_ShownSourcesFollow ==
    \A c \in Live : \A s \in Live \ {c} :
        (out[c] = <<>> /\ s \in DOMAIN others[c]) => others[c][s] = Registered(s)

\* C28: when the join snapshot reaches a client, the client creates its own
\* player from it and does not add its own entry as a remote player, whatever
\* the order of the socket's connect, the scene's creation and the delivery
C28_SnapshotMakesOwnPlayer ==
    [][\A c \in AppIDs :
         (/\ last'.op = "recv" /\ last'.id = c
          /\ out[c] # <<>>
          /\ Head(out[c]).type = "playersSync")
         => (player'[c] # NoPos /\ c \notin DOMAIN others'[c])]_vars

\* the part of it about the own entry alone
C28_OwnEntryNeverRemote == \A c \in AppIDs : c \notin DOMAIN others[c]

\* C29: once a connected client has been delivered every server message, the
\* remote players it tracks are the ids of the registry other than its own
C29_RosterConvergence ==
    \A c \in Live :
        (out[c] = <<>> /\ sid[c] # NoId) => DOMAIN others[c] = (DOMAIN players) \ {c}

\* the same for the clients that made their own player from the snapshot
C29_RosterOfJoined ==
    \A c \in Live :
        (out[c] = <<>> /\ player[c] # NoPos) => DOMAIN others[c] = (DOMAIN players) \ {c}

\* C30: when a client that has its own player feeds a signal of sender q into
\* a peer, q still holds the peer instance of that session (q has not torn it
\* down since), and the signal makes the client create a peer only if its own
\* proximity check lists q
C30_SignalsOfSameSession ==
    [][\A c \in AppIDs :
         (/\ last'.op = "recv" /\ last'.id = c
          /\ out[c] # <<>>
          /\ Head(out[c]).type = "webrtcSignal"
          /\ stage[c] = "scene"
          /\ player[c] # NoPos)
         => LET q == Head(out[c]).id IN
            /\ c \in DOMAIN peers[q]
            /\ last'.created # {} => q \in ClosePlayers(player[c], others[c])]_vars

\* the two parts of it, each alone
C30_ProducerStillThere ==
    [][\A c \in AppIDs :
         (/\ last'.op = "recv" /\ last'.id = c
          /\ out[c] # <<>>
          /\ Head(out[c]).type = "webrtcSignal"
          /\ stage[c] = "scene"
          /\ player[c] # NoPos)
         => c \in DOMAIN peers[Head(out[c]).id]]_vars

C30_CreatedOnlyIfListed ==
    [][\A c \in AppIDs :
         (/\ last'.op = "recv" /\ last'.id = c
          /\ out[c] # <<>>
          /\ Head(out[c]).type = "webrtcSignal"
          /\ stage[c] = "scene"
          /\ player[c] # NoPos
          /\ last'.created # {})
         => Head(out[c]).id \in ClosePlayers(player[c], others[c])]_vars

\* C31: when two connected clients are within the threshold of each other
\* and everything is delivered, nothing is left to emit and every update
\* loop has run to a standstill (so that nothing more happens while they stay
\* where they are), each holds a session for the other, one of the two an
\* initiator and the other not
C31_EventualEstablishment ==
    Settled =>
        \A p \in Live : \A q \in Live \ {p} :
            Near(player[p], player[q]) =>
                /\ q \in DOMAIN peers[p]
                /\ p \in DOMAIN peers[q]
                /\ peers[p][q].initiator # peers[q][p].initiator

\* ========================================================= zone properties
\* the cache entries whose rectangle, both bounds included, holds (x, y)
Holding(x, y) ==
    {i \in 1..Len(jitsiZones) :
        /\ jitsiZones[i].x <= x /\ x <= jitsiZones[i].x + jitsiZones[i].width
        /\ jitsiZones[i].y <= y /\ y <= jitsiZones[i].y + jitsiZones[i].height}

\* C17: the zone test returns the room of the first cache entry whose
\* rectangle holds the point, edges and corners included, and null when no
\* entry holds it
C17_ZoneFor ==
    zlast.op = "getJitsiRoomForPosition" =>
        zlast.cur =
            IF Holding(zlast.x, zlast.y) = {}
            THEN JsNull
            ELSE jitsiZones[CHOOSE i \in Holding(zlast.x, zlast.y) :
                               \A j \in Holding(zlast.x, zlast.y) : i <= j].room

\* the corner two zones share was answered with the room of the zone loaded
\* first, here conf2
C17_Witness ==
    /\ zlast.op = "getJitsiRoomForPosition"
    /\ zlast.x = 50 /\ zlast.y = 50
    /\ jitsiZones = <<Conf2, Conf1>>
    /\ Holding(50, 50) = {1, 2}
    /\ zlast.cur = "conf2"

\* the zone of a stored position
ZoneOf(p) ==
    IF p = NoWhere THEN JsNull ELSE getJitsiRoomForPosition(jitsiZones, p.x, p.y)

\* C18: for a registered player, the recomputation of a move from outside
\* every zone into zone Z emits exactly one join-jitsi for Z; the
\* recomputation of a later move from Z, whose session is open, to outside
\* every zone emits exactly one leave-jitsi for Z; no recomputation emits two
\* events
C18_ZoneLifecycle ==
    [][(zlast'.h = "player-move" /\ zlast'.done /\ zlast'.id \in members) =>
         LET id == zlast'.id
             to == getJitsiRoomForPosition(jitsiZones, zlast'.x, zlast'.y)
             was == ZoneOf(zlast'.from) IN
         /\ (zlast'.from # NoWhere /\ was = JsNull /\ to # JsNull)
               => zlast'.emitted = <<Event(id, "join-jitsi", to, {})>>
         /\ (was # JsNull /\ session[id] = was /\ to = JsNull)
               => zlast'.emitted = <<Event(id, "leave-jitsi", was, {})>>
         /\ Len(zlast'.emitted) <= 1]_vars

\* C19: addPlayer for an id that is registered leaves its record as it was
C19_DuplicateRegister ==
    [][(zlast'.op = "addPlayer" /\ zlast'.id \in members
            /\ zlast'.id \in DOMAIN store)
          => store'[zlast'.id] = store[zlast'.id]]_vars

\* the zone a stored currentJitsiRoom stands for, null for no zone
Membership(room) == IF room \in {NullString, JsNull, JsUndefined} THEN JsNull ELSE room

\* C20: for a registered player, a recomputation whose new zone is the
\* stored membership emits nothing, and leave-jitsi is emitted only when the
\* stored membership was a zone
C20_ZoneIdempotence ==
    [][(zlast'.h = "player-move" /\ zlast'.done /\ zlast'.id \in members) =>
         LET to == getJitsiRoomForPosition(jitsiZones, zlast'.x, zlast'.y) IN
         /\ (Membership(zlast'.cur) = to) => zlast'.emitted = <<>>
         /\ (\E i \in 1..Len(zlast'.emitted) : zlast'.emitted[i].type = "leave-jitsi")
               => Membership(zlast'.cur) # JsNull]_vars

\* the events of one kind among those a step emitted
Emitted(step, type) ==
    {i \in 1..Len(step.emitted) : step.emitted[i].type = type}

\* C21: for a registered player, the recomputation of a move from zone A
\* into another zone B emits leave-jitsi for A and then join-jitsi for B, and
\* join-jitsi is never emitted to a player whose last join-jitsi has not
\* been followed by a leave-jitsi
C21_ZoneToZone ==
    [][(zlast'.h = "player-move" /\ zlast'.done /\ zlast'.id \in members) =>
         LET id == zlast'.id
             A == Membership(zlast'.cur)
             B == getJitsiRoomForPosition(jitsiZones, zlast'.x, zlast'.y) IN
         /\ (A # JsNull /\ B # JsNull /\ A # B)
               => zlast'.emitted = <<Event(id, "leave-jitsi", A, {}),
                                     Event(id, "join-jitsi", B, {})>>
         /\ (Emitted(zlast', "join-jitsi") # {})
               => (session[id] = NoSession \/ Emitted(zlast', "leave-jitsi") # {})]_vars

\* the stored membership of c is the zone of its stored position
MembershipCurrent(c) ==
    c \in DOMAIN store =>
        Membership(store[c].currentJitsiRoom) = ZoneOf(StoredAt(c))

\* C22: however the handlers of a registered player's moves interleave, no
\* join-jitsi is emitted for the room the player's open session already has,
\* and when a move handler returns with no handler left in flight the stored
\* membership is the zone of the stored position
C22_MoveRace ==
    [][(zlast'.h = "player-move" /\ zlast'.done /\ zlast'.id \in members) =>
         LET id == zlast'.id IN
         /\ \A i \in Emitted(zlast', "join-jitsi") :
               zlast'.emitted[i].roomName # session[id]
         /\ (pipe' = <<>>)
               => \A c \in ZIDs : (c = id) => MembershipCurrent(c)']_vars

\* the disconnect handler of c has returned
RemovalDone(c) ==
    /\ c \in gone
    /\ \A i \in 1..Len(pipe) : ~(pipe[i].id = c /\ pipe[i].h = "disconnect")

\* no handler of c is in flight
Idle(c) == \A i \in 1..Len(pipe) : pipe[i].id # c

\* C23: once the disconnect handler of a socket has returned no join-jitsi or
\* leave-jitsi is emitted for that socket, and once all its handlers have
\* returned the store holds no record for it
C23_RemoveWins ==
    [][\A c \in ZIDs :
         /\ (RemovalDone(c) /\ zlast'.id = c)
               => (Emitted(zlast', "join-jitsi") = {} /\ Emitted(zlast', "leave-jitsi") = {})
         /\ (RemovalDone(c) /\ Idle(c))' => c \notin DOMAIN store']_vars

====
